---- MODULE Spec2Model ----
(***************************************************************************)
(* Model of the two enrichment scripts ot_google.py (API variant) and      *)
(* ot_insta.py (scrape variant).                                           *)
(*                                                                         *)
(* Representation of Python values:                                        *)
(*   - a JSON value is a tagged record: None, Num(n), Str(s), Dict(f),     *)
(*     List(q);                                                            *)
(*   - a Python string is a sequence of tokens, each token standing for a  *)
(*     run of characters that the code never looks inside ("opentable",    *)
(*     "/", " ", "chef", ...);                                             *)
(*   - decimal numbers are scaled by 10 (40.7 is Num(407));                *)
(*   - restaurant names (the keys of the store) are numbered 1..n in the   *)
(*     order the JSON document lists them, which is the order Python's     *)
(*     dict iterates them.                                                 *)
(***************************************************************************)
EXTENDS Integers, Sequences, FiniteSets, TLC

VARIABLES
    variant,      \* "google" (ot_google.py) or "insta" (ot_insta.py)
    stub,         \* what the external source answers (the environment)
    run,          \* number of the current invocation of the script
    pc,           \* position of the script
    file,         \* the input JSON document on disk
    resultsFile,  \* ot-instagram-results.json on disk (NoFile: does not exist)
    lookup,       \* the in-memory Record Store
    ot_entries,   \* the Candidate Set
    i,            \* number of candidates whose loop body has started
    hits,         \* google: counter; insta: the Results List
    errors,       \* error counter
    d,            \* the last Fetch Result (NoResp before the first fetch)
    output,       \* lines printed on stdout by this invocation
    fetched,      \* requests sent by urlopen in this invocation, in order
    sleeps,       \* completed time.sleep calls in this invocation
    writes,       \* output files written by this invocation
    loaded,       \* the document json.load returned in this invocation
    hitNames,     \* keys that got a hit in this invocation
    prevHits      \* keys that got a hit in the previous invocation

vars == <<variant, stub, run, pc, file, resultsFile, lookup, ot_entries, i, hits,
          errors, d, output, fetched, sleeps, writes, loaded, hitNames, prevHits>>

-----------------------------------------------------------------------------
(* Bounds of the model *)

MaxNames == 2
MaxRuns == 2
MaxOcc == 2
BigN == 100

-----------------------------------------------------------------------------
(* Python / JSON values *)

None == [tag |-> "null"]
Num(n) == [tag |-> "num", v |-> n]
Str(s) == [tag |-> "str", v |-> s]
Dict(f) == [tag |-> "dict", v |-> f]
List(q) == [tag |-> "list", v |-> q]

EmptyDict == Dict(<<>>)

\* bool(x) of a JSON value
Truthy(j) ==
    CASE j.tag = "null" -> FALSE
      [] j.tag = "num" -> j.v # 0
      [] j.tag = "str" -> Len(j.v) > 0
      [] j.tag = "dict" -> DOMAIN j.v # {}
      [] j.tag = "list" -> Len(j.v) > 0

\* dict.get(k, dflt) on the items of a dict
Get(items, k, dflt) == IF k \in DOMAIN items THEN items[k] ELSE dflt

\* dict[k] = val on the items of a dict
Put(items, k, val) ==
    [x \in DOMAIN items \cup {k} |-> IF x = k THEN val ELSE items[x]]

\* needle in hay, for Python strings
Contains(hay, needle) ==
    \E k \in 0..(Len(hay) - Len(needle)) :
        \A j \in 1..Len(needle) : hay[k + j] = needle[j]

\* s.split('/')[-1]: what follows the last '/' of s (all of s when it has none)
SplitLast(s) ==
    LET cuts == {k \in 1..Len(s) : s[k] = "/"}
        last == IF cuts = {} THEN 0 ELSE CHOOSE k \in cuts : \A m \in cuts : m <= k
    IN  SubSeq(s, last + 1, Len(s))

Whitespace == {" "}

\* s.strip()
Strip(s) ==
    LET keep == {k \in 1..Len(s) : s[k] \notin Whitespace}
    IN  IF keep = {} THEN <<>>
        ELSE SubSeq(s, CHOOSE k \in keep : \A m \in keep : k <= m,
                       CHOOSE k \in keep : \A m \in keep : m <= k)

\* s.rstrip('/')
RStripSlash(s) ==
    LET keep == {k \in 1..Len(s) : s[k] # "/"}
    IN  IF keep = {} THEN <<>>
        ELSE SubSeq(s, 1, CHOOSE k \in keep : \A m \in keep : m <= k)

-----------------------------------------------------------------------------
(* The Record Store: documents the scripts can be started on *)

OtUrl == Str(<<"https:", "/", "/", "www.", "opentable", ".com", "/", "r", "/", "carbone">>)
CapsUrl == Str(<<"https:", "/", "/", "www.", "OpenTable", ".com", "/", "carbone">>)
SlugValue == Str(<<"carbone-new-york">>)
Handle == Str(<<"chef">>)

\* a record with the given optional fields (Absent: the key is missing)
Absent == [tag |-> "absent"]
Fields(r) == {k \in DOMAIN r : r[k].tag # "absent"}
Record(r) == [k \in Fields(r) |-> r[k]]

GoogleRecords ==
    {Record([url |-> u, lat |-> Absent]) : u \in {Absent, OtUrl, CapsUrl}}
    \cup {Record([url |-> OtUrl, lat |-> l]) : l \in {Num(0), Num(407)}}
    \cup {Record([url |-> CapsUrl, lat |-> Num(407)])}

InstaRecords ==
    {Record([url |-> u, instagram |-> Absent]) : u \in {Absent, OtUrl, CapsUrl}}
    \cup {Record([url |-> OtUrl, instagram |-> g]) : g \in {Str(<<>>), Handle}}
    \cup {Record([url |-> OtUrl, slug |-> SlugValue])}

RecordsOf(var) == IF var = "google" THEN GoogleRecords ELSE InstaRecords

\* the documents with at most n records
Stores(var, n) == UNION {[1..m -> RecordsOf(var)] : m \in 0..n}

\* a document of n records that are all candidates
UniformStore(n) == [k \in 1..n |-> Record([url |-> OtUrl])]

\* iteration order of a dict: insertion order, here the numbering of the keys
Items(store) == [k \in 1..Cardinality(DOMAIN store) |-> k]

-----------------------------------------------------------------------------
(* Fetch Results of the API variant: what urlopen + json.loads give *)

Raise == [kind |-> "raise"]
Body(b) == [kind |-> "body", body |-> b]
NoResp == [kind |-> "none"]

Location(lat, lng) == Dict([location |-> Dict([lat |-> lat, lng |-> lng])])

M1 == Dict([geometry |-> Location(Num(407), Num(-740)), rating |-> Num(48),
            user_ratings_total |-> Num(500), place_id |-> Str(<<"abc123">>)])
M2 == Dict([geometry |-> Location(Num(408), Num(-739)), rating |-> Num(39),
            user_ratings_total |-> Num(12), place_id |-> Str(<<"xyz789">>)])
MNoGeometry == Dict([rating |-> Num(45), place_id |-> Str(<<"nogeo">>)])
MNullGeometry == Dict([geometry |-> None, rating |-> Num(45), place_id |-> Str(<<"nullgeo">>)])
MNullLocation == Dict([geometry |-> Dict([location |-> None]), rating |-> Num(45),
                       place_id |-> Str(<<"nullloc">>)])

Candidates(q) == Dict([candidates |-> q, status |-> Str(<<"OK">>)])

GoogleResponses ==
    { Raise,
      Body(List(<<>>)),
      Body(Dict([status |-> Str(<<"REQUEST_DENIED">>)])),
      Body(Candidates(List(<<>>))),
      Body(Candidates(Str(<<"x">>))),
      Body(Candidates(List(<<M1>>))),
      Body(Candidates(List(<<M2, M1>>))),
      Body(Candidates(List(<<MNoGeometry>>))),
      Body(Candidates(List(<<MNullGeometry>>))),
      Body(Candidates(List(<<MNullLocation, M1>>))) }

-----------------------------------------------------------------------------
(* Fetch Results of the scrape variant: the decoded page.                   *)
(* A page is the sequence, in textual order, of the places where one of the *)
(* three patterns matches; each place gives the pattern and the text of its *)
(* capture group.  re.search(p, html) is the first place of pattern p.      *)
(* Patterns 1 and 3 capture [A-Za-z0-9_.]+ , pattern 2 captures [^"]+ .     *)

NPatterns == 3

Captures(p) ==
    IF p = 2
    THEN {<<" ", "lebernardin", "/", "/">>, <<"/">>, <<"reel">>}
    ELSE {<<"explore">>, <<"chef">>}

Places == UNION {{[p |-> p, cap |-> c] : c \in Captures(p)} : p \in 1..NPatterns}

Pages(n) == UNION {[1..m -> Places] : m \in 0..n}

\* the pages a fetch is answered with when the stub leaves the answer open
SamplePages ==
    { <<>>,
      <<[p |-> 1, cap |-> <<"chef">>]>>,
      <<[p |-> 1, cap |-> <<"explore">>], [p |-> 1, cap |-> <<"chef">>]>>,
      <<[p |-> 1, cap |-> <<"explore">>], [p |-> 2, cap |-> <<" ", "lebernardin", "/", "/">>]>>,
      <<[p |-> 3, cap |-> <<"explore">>], [p |-> 2, cap |-> <<"/">>]>> }

InstaResponses == {Raise} \cup {Body(h) : h \in SamplePages}

Blocklist == {<<"p">>, <<"reel">>, <<"explore">>, <<"accounts">>, <<"stories">>}

\* m = re.search(patterns[p], html, re.I): the index of the first place of
\* pattern p, 0 when there is none
Search(p, html) ==
    LET at == {k \in 1..Len(html) : html[k].p = p}
    IN  IF at = {} THEN 0 ELSE CHOOSE k \in at : \A m \in at : k <= m

\* ig = m.group(1).strip().rstrip('/')
Clean(cap) == RStripSlash(Strip(cap))

\* Accepted without the blocklist
AcceptedNonEmpty(ig) == Len(ig) > 0

\* ig and ig not in [...]
Accepted(ig) == Len(ig) > 0 /\ ig \notin Blocklist

\* PatternsFrom with the loop left at the first pattern that matches, whether
\* its capture is accepted or not
RECURSIVE PatternsFromStop(_, _)
PatternsFromStop(p, html) ==
    IF p > NPatterns THEN <<>>
    ELSE LET m == Search(p, html)
         IN  IF m # 0
             THEN IF Accepted(Clean(html[m].cap)) THEN Clean(html[m].cap) ELSE <<>>
             ELSE PatternsFromStop(p + 1, html)

\* the for loop over patterns, from pattern p on; the value of ig after it
RECURSIVE PatternsFrom(_, _)
PatternsFrom(p, html) ==
    IF p > NPatterns THEN <<>>
    ELSE LET m == Search(p, html)
         IN  IF m # 0 /\ Accepted(Clean(html[m].cap))
             THEN Clean(html[m].cap)
             ELSE PatternsFrom(p + 1, html)

Extract(html) == PatternsFrom(1, html)

-----------------------------------------------------------------------------
(* The environment: which answers a fetch may get.                          *)
(* stub.dflt is the answer to every fetch, except that the fetch of the     *)
(* candidate with 1-based index stub.at gets stub.special; Open leaves the  *)
(* answer open among the sample responses, OpenPage among all the pages of  *)
(* at most MaxOcc places.                                                   *)

Open == [kind |-> "any"]
OpenPage == [kind |-> "any page"]

ResponsesOf(var) == IF var = "google" THEN GoogleResponses ELSE InstaResponses

Answers(var, st, idx) ==
    LET r == IF idx = st.at THEN st.special ELSE st.dflt
    IN  CASE r.kind = "any" -> ResponsesOf(var)
          [] r.kind = "any page" -> {Body(h) : h \in Pages(MaxOcc)}
          [] OTHER -> {r}

FreeStub == [dflt |-> Open, at |-> 0, special |-> Open]
FixedStub(r) == [dflt |-> r, at |-> 0, special |-> r]

-----------------------------------------------------------------------------
(* ot_google.py: the body of the try statement *)

\* HitBranch with hits += 1 moved to the top of the branch
HitBranchCountsFirst(store, h, name, c) ==
    IF c.tag # "dict" THEN [raised |-> TRUE, lookup |-> store, hits |-> h + 1]
    ELSE LET g == Get(c.v, "geometry", EmptyDict)
             loc == IF g.tag = "dict" THEN Get(g.v, "location", EmptyDict) ELSE None
         IN  IF loc.tag # "dict"
             THEN [raised |-> TRUE, lookup |-> store, hits |-> h + 1]
             ELSE [raised |-> FALSE,
                   lookup |-> [store EXCEPT ![name] =
                       Put(Put(Put(Put(Put(@, "lat", Get(loc.v, "lat", None)),
                                       "lng", Get(loc.v, "lng", None)),
                                   "google_rating", Get(c.v, "rating", None)),
                               "google_reviews", Get(c.v, "user_ratings_total", None)),
                           "place_id", Get(c.v, "place_id", None))],
                   hits |-> h + 1]

\* HitBranch with the rating, review count and place_id assigned before the
\* geometry is looked at
HitBranchRatingFirst(store, h, name, c) ==
    IF c.tag # "dict" THEN [raised |-> TRUE, lookup |-> store, hits |-> h]
    ELSE LET e1 == Put(store[name], "google_rating", Get(c.v, "rating", None))
             e2 == Put(e1, "google_reviews", Get(c.v, "user_ratings_total", None))
             e3 == Put(e2, "place_id", Get(c.v, "place_id", None))
             g == Get(c.v, "geometry", EmptyDict)
             loc == IF g.tag = "dict" THEN Get(g.v, "location", EmptyDict) ELSE None
         IN  IF loc.tag # "dict"
             THEN [raised |-> TRUE, lookup |-> [store EXCEPT ![name] = e3], hits |-> h]
             ELSE [raised |-> FALSE,
                   lookup |-> [store EXCEPT ![name] =
                       Put(Put(e3, "lat", Get(loc.v, "lat", None)),
                           "lng", Get(loc.v, "lng", None))],
                   hits |-> h + 1]

\* lines 26-34: the response has matches and c is the first of them.
\* The right-hand sides of lines 27 and 29 are evaluated before the first
\* assignment of line 29, and they are the only places that can raise.
HitBranch(store, h, name, c) ==
    IF c.tag # "dict" THEN [raised |-> TRUE, lookup |-> store, hits |-> h]
    ELSE LET g == Get(c.v, "geometry", EmptyDict)
         IN  IF g.tag # "dict" THEN [raised |-> TRUE, lookup |-> store, hits |-> h]
             ELSE LET loc == Get(g.v, "location", EmptyDict)
                  IN  IF loc.tag # "dict"
                      THEN [raised |-> TRUE, lookup |-> store, hits |-> h]
                      ELSE LET e1 == Put(store[name], "lat", Get(loc.v, "lat", None))
                               e2 == Put(e1, "lng", Get(loc.v, "lng", None))
                               e3 == Put(e2, "google_rating", Get(c.v, "rating", None))
                               e4 == Put(e3, "google_reviews",
                                         Get(c.v, "user_ratings_total", None))
                               e5 == Put(e4, "place_id", Get(c.v, "place_id", None))
                          IN  [raised |-> FALSE,
                               lookup |-> [store EXCEPT ![name] = e5],
                               hits |-> h + 1]

\* TryGoogle with the last match taken in place of the first
TryGoogleLastMatch(store, h, name, resp) ==
    IF resp.kind = "raise" \/ resp.body.tag # "dict"
    THEN [raised |-> TRUE, lookup |-> store, hits |-> h]
    ELSE LET cands == Get(resp.body.v, "candidates", None)
         IN  IF ~Truthy(cands)
             THEN [raised |-> FALSE, lookup |-> store, hits |-> h]
             ELSE IF cands.tag # "list"
                  THEN [raised |-> TRUE, lookup |-> store, hits |-> h]
                  ELSE HitBranch(store, h, name, cands.v[Len(cands.v)])

\* lines 19-39 without the prints: the store and the hit counter after the
\* try body, and whether it raised
TryGoogle(store, h, name, resp) ==
    IF resp.kind = "raise" \/ resp.body.tag # "dict"
    THEN [raised |-> TRUE, lookup |-> store, hits |-> h]
    ELSE LET cands == Get(resp.body.v, "candidates", None)
         IN  IF ~Truthy(cands)
             THEN [raised |-> FALSE, lookup |-> store, hits |-> h]
             ELSE IF cands.tag # "list"
                  THEN [raised |-> TRUE, lookup |-> store, hits |-> h]
                  ELSE HitBranch(store, h, name, cands.v[1])

-----------------------------------------------------------------------------
(* ot_insta.py: the body of the try statement *)

\* lines 20-43 without the prints: the Results List after the try body, and
\* whether it raised
TryInsta(h, r, resp) ==
    IF resp.kind = "raise"
    THEN [raised |-> TRUE, hits |-> h]
    ELSE LET ig == Extract(resp.body)
         IN  IF Len(ig) > 0
             THEN [raised |-> FALSE,
                   hits |-> Append(h, [name |-> r.name, instagram |-> ig])]
             ELSE [raised |-> FALSE, hits |-> h]

\* line 18: slug = r['slug'] or r['url'].split('/')[-1]
Slug(r) == IF Truthy(r.slug) THEN r.slug.v ELSE SplitLast(r.url.v)

-----------------------------------------------------------------------------
(* Filter: lines 7-10 of both scripts *)

\* Needs without the test of the target field
NeedsMarkerOnly(v, target) ==
    Contains(Get(v, "url", Str(<<>>)).v, <<"opentable">>)

\* 'opentable' in v.get('url', '') and not v.get(target)
Needs(v, target) ==
    /\ Contains(Get(v, "url", Str(<<>>)).v, <<"opentable">>)
    /\ ~Truthy(Get(v, target, None))

Target(var) == IF var = "google" THEN "lat" ELSE "instagram"

\* the keys appended to ot_entries, in the order the loop of line 8 meets them
CandidateNames(store, var) ==
    SelectSeq(Items(store), LAMBDA n : Needs(store[n], Target(var)))

\* ot_entries as each script builds it: names (google), or dicts of name, url
\* and slug (insta)
BuildEntries(store, var) ==
    LET names == CandidateNames(store, var)
    IN  IF var = "google" THEN names
        ELSE [k \in 1..Len(names) |->
                [name |-> names[k],
                 url |-> store[names[k]]["url"],
                 slug |-> Get(store[names[k]], "slug", Str(<<>>))]]

NameOf(var, entry) == IF var = "google" THEN entry ELSE entry.name

-----------------------------------------------------------------------------
(* The lines printed inside the loop *)

PeriodGoogle == 50
PeriodInsta == 100

\* ProgressGoogle without the print of the except branch
ProgressGoogleQuietErrors(outcome, idx, total, h, e) ==
    IF idx % PeriodGoogle = 0 /\ outcome # "error"
    THEN <<[kind |-> "progress", index |-> idx, total |-> total, hits |-> h, errors |-> e]>>
    ELSE <<>>

\* ot_google.py lines 35-36, 38-39, 42-43: the same test and the same fields
\* in the three branches
ProgressGoogle(outcome, idx, total, h, e) ==
    IF idx % PeriodGoogle = 0
    THEN <<[kind |-> "progress", index |-> idx, total |-> total, hits |-> h, errors |-> e]>>
    ELSE <<>>

\* ot_insta.py lines 44, 46-47, 50-51; h is the Results List after the try body
ProgressInsta(outcome, idx, total, h, e) ==
    CASE outcome = "hit" ->
            <<[kind |-> "ig", index |-> idx, total |-> total,
               name |-> h[Len(h)].name, instagram |-> h[Len(h)].instagram]>>
      [] outcome = "nohit" ->
            IF idx % PeriodInsta = 0
            THEN <<[kind |-> "found so far", index |-> idx, total |-> total, hits |-> Len(h)]>>
            ELSE <<>>
      [] outcome = "error" ->
            IF idx % PeriodInsta = 0
            THEN <<[kind |-> "progress", index |-> idx, total |-> total,
                    hits |-> Len(h), errors |-> e]>>
            ELSE <<>>

\* which of the three branches the loop body took
Outcome(raised, hitsBefore, hitsAfter) ==
    IF raised THEN "error" ELSE IF hitsAfter # hitsBefore THEN "hit" ELSE "nohit"

-----------------------------------------------------------------------------
(* The scripts as a state machine *)

NoFile == [exists |-> FALSE, content |-> <<>>]
NoHits(var) == IF var = "google" THEN 0 ELSE <<>>
NumHits == IF variant = "google" THEN hits ELSE Len(hits)

Start(var, doc, st) ==
    /\ variant = var
    /\ stub = st
    /\ file = doc
    /\ run = 1
    /\ pc = "load"
    /\ resultsFile = NoFile
    /\ lookup = <<>>
    /\ loaded = <<>>
    /\ ot_entries = <<>>
    /\ i = 0
    /\ hits = NoHits(var)
    /\ errors = 0
    /\ d = NoResp
    /\ output = <<>>
    /\ fetched = <<>>
    /\ sleeps = 0
    /\ writes = 0
    /\ hitNames = {}
    /\ prevHits = {}

FixedMatches(var) ==
    IF var = "google"
    THEN {Body(Candidates(List(<<M1>>))), Body(Candidates(List(<<M2, M1>>))),
          Body(Candidates(List(<<MNoGeometry>>)))}
    ELSE {Body(<<[p |-> 1, cap |-> <<"chef">>]>>)}

Init ==
    \E var \in {"google", "insta"} :
        \E doc \in Stores(var, MaxNames) :
            \E st \in {FreeStub} \cup {FixedStub(r) : r \in FixedMatches(var)} :
                Start(var, doc, st)

\* line 3 (google), line 4 (insta): lookup = json.load(open(...))
Load ==
    /\ pc = "load"
    /\ lookup' = file
    /\ loaded' = file
    /\ pc' = "filter"
    /\ UNCHANGED <<variant, stub, run, file, resultsFile, ot_entries, i, hits, errors, d,
                   output, fetched, sleeps, writes, hitNames, prevHits>>

\* lines 7-15: build ot_entries, print its length, reset the counters
Filter ==
    /\ pc = "filter"
    /\ ot_entries' = BuildEntries(lookup, variant)
    /\ output' = Append(output, [kind |-> "needing", total |-> Len(ot_entries')])
    /\ hits' = NoHits(variant)
    /\ errors' = 0
    /\ pc' = "loop"
    /\ UNCHANGED <<variant, stub, run, file, resultsFile, lookup, i, d, fetched, sleeps,
                   writes, loaded, hitNames, prevHits>>

\* ot_google.py lines 17-43: one pass of the loop body up to the sleep
ProcessGoogle ==
    /\ pc = "loop"
    /\ variant = "google"
    /\ i < Len(ot_entries)
    /\ \E resp \in Answers(variant, stub, i + 1) :
        LET name == ot_entries[i + 1]
            t == TryGoogle(lookup, hits, name, resp)
            e == IF t.raised THEN errors + 1 ELSE errors
            o == Outcome(t.raised, hits, t.hits)
        IN  /\ d' = resp
            /\ fetched' = Append(fetched, [name |-> name])
            /\ lookup' = t.lookup
            /\ hits' = t.hits
            /\ errors' = e
            /\ hitNames' = IF o = "hit" THEN hitNames \cup {name} ELSE hitNames
            /\ output' = output \o ProgressGoogle(o, i + 1, Len(ot_entries), t.hits, e)
    /\ i' = i + 1
    /\ pc' = "sleep"
    /\ UNCHANGED <<variant, stub, run, file, resultsFile, ot_entries, sleeps, writes,
                   loaded, prevHits>>

\* ot_insta.py lines 17-51: one pass of the loop body up to the sleep
ProcessInsta ==
    /\ pc = "loop"
    /\ variant = "insta"
    /\ i < Len(ot_entries)
    /\ \E resp \in Answers(variant, stub, i + 1) :
        LET r == ot_entries[i + 1]
            t == TryInsta(hits, r, resp)
            e == IF t.raised THEN errors + 1 ELSE errors
            o == Outcome(t.raised, hits, t.hits)
        IN  /\ d' = resp
            /\ fetched' = Append(fetched, [name |-> r.name, slug |-> Slug(r)])
            /\ hits' = t.hits
            /\ errors' = e
            /\ hitNames' = IF o = "hit" THEN hitNames \cup {r.name} ELSE hitNames
            /\ output' = output \o ProgressInsta(o, i + 1, Len(ot_entries), t.hits, e)
    /\ i' = i + 1
    /\ pc' = "sleep"
    /\ UNCHANGED <<variant, stub, run, file, resultsFile, lookup, ot_entries, sleeps,
                   writes, loaded, prevHits>>

\* Sleep as if time.sleep were the last statement of the try body
SleepInsideTry ==
    /\ pc = "sleep"
    /\ sleeps' = IF d.kind = "raise" THEN sleeps ELSE sleeps + 1
    /\ pc' = "loop"
    /\ UNCHANGED <<variant, stub, run, file, resultsFile, lookup, ot_entries, i, hits,
                   errors, d, output, fetched, writes, loaded, hitNames, prevHits>>

\* line 45 (google), line 53 (insta): time.sleep after the try statement
Sleep ==
    /\ pc = "sleep"
    /\ sleeps' = sleeps + 1
    /\ pc' = "loop"
    /\ UNCHANGED <<variant, stub, run, file, resultsFile, lookup, ot_entries, i, hits,
                   errors, d, output, fetched, writes, loaded, hitNames, prevHits>>

\* Persist as if the json.dump were inside the loop: a write after every pass
PersistInLoop ==
    /\ pc = "loop"
    /\ i > 0
    /\ writes < i
    /\ IF variant = "google"
       THEN file' = lookup /\ UNCHANGED resultsFile
       ELSE resultsFile' = [exists |-> TRUE, content |-> hits] /\ UNCHANGED file
    /\ writes' = writes + 1
    /\ pc' = IF i = Len(ot_entries) THEN "summary" ELSE "loop"
    /\ UNCHANGED <<variant, stub, run, lookup, ot_entries, i, hits, errors, d, output,
                   fetched, sleeps, loaded, hitNames, prevHits>>

\* lines 47-48 (google): json.dump(lookup) over the input file;
\* lines 56-57 (insta): json.dump(hits) to the results file
Persist ==
    /\ pc = "loop"
    /\ i = Len(ot_entries)
    /\ IF variant = "google"
       THEN file' = lookup /\ UNCHANGED resultsFile
       ELSE resultsFile' = [exists |-> TRUE, content |-> hits] /\ UNCHANGED file
    /\ writes' = writes + 1
    /\ pc' = "summary"
    /\ UNCHANGED <<variant, stub, run, lookup, ot_entries, i, hits, errors, d, output,
                   fetched, sleeps, loaded, hitNames, prevHits>>

\* lines 50-52 (google), lines 59-61 (insta): the final summary
Summary ==
    /\ pc = "summary"
    /\ output' = output \o
          << [kind |-> "done", hits |-> NumHits, total |-> Len(ot_entries)],
             [kind |-> "errors", errors |-> errors],
             [kind |-> "saved"] >>
    /\ pc' = "done"
    /\ UNCHANGED <<variant, stub, run, file, resultsFile, lookup, ot_entries, i, hits,
                   errors, d, fetched, sleeps, writes, loaded, hitNames, prevHits>>

\* the script is started again on the files the previous invocation left
Restart ==
    /\ pc = "done"
    /\ run < MaxRuns
    /\ run' = run + 1
    /\ pc' = "load"
    /\ lookup' = <<>>
    /\ loaded' = <<>>
    /\ ot_entries' = <<>>
    /\ i' = 0
    /\ hits' = NoHits(variant)
    /\ errors' = 0
    /\ d' = NoResp
    /\ output' = <<>>
    /\ fetched' = <<>>
    /\ sleeps' = 0
    /\ writes' = 0
    /\ prevHits' = hitNames
    /\ hitNames' = {}
    /\ UNCHANGED <<variant, stub, file, resultsFile>>

Next ==
    \/ Load
    \/ Filter
    \/ ProcessGoogle
    \/ ProcessInsta
    \/ Sleep
    \/ Persist
    \/ Summary
    \/ Restart

Spec == Init /\ [][Next]_vars

-----------------------------------------------------------------------------
(* Other starting points of the same state machine *)

\* up to MaxNames candidates; the first fetch gets any page of at most MaxOcc
\* places (any sample response in the API variant), the later ones any sample
\* response
InitPages ==
    \E var \in {"google", "insta"} :
        \E n \in 1..MaxNames :
            LET open == IF var = "insta" THEN OpenPage ELSE Open
            IN  Start(var, UniformStore(n), [dflt |-> Open, at |-> 1, special |-> open])

SpecPages == InitPages /\ [][Next]_vars

Period(var) == IF var = "google" THEN PeriodGoogle ELSE PeriodInsta

\* a hit, a no-hit and an error of each variant
Typical(var) ==
    IF var = "google"
    THEN {Raise, Body(Candidates(List(<<>>))), Body(Candidates(List(<<M1>>)))}
    ELSE {Raise, Body(<<>>), Body(<<[p |-> 1, cap |-> <<"chef">>]>>)}

\* BigN candidates; every fetch gets the same answer, except the one of the
\* candidate whose index is the period
InitProgress ==
    \E var \in {"google", "insta"} :
        \E r \in Typical(var), s \in Typical(var) :
            Start(var, UniformStore(BigN), [dflt |-> r, at |-> Period(var), special |-> s])

SpecProgress == InitProgress /\ [][Next]_vars

\* documents whose records are either a candidate or a record that already
\* has its target field
FairRecords(var) ==
    IF var = "google"
    THEN {Record([url |-> OtUrl]), Record([url |-> OtUrl, lat |-> Num(407)])}
    ELSE {Record([url |-> OtUrl]), Record([url |-> OtUrl, instagram |-> Handle])}

InitFair ==
    \E var \in {"google", "insta"} :
        \E m \in 0..MaxNames :
            \E doc \in [1..m -> FairRecords(var)] :
                \E st \in {FreeStub} \cup {FixedStub(r) : r \in FixedMatches(var)} :
                    Start(var, doc, st)

\* The scripts are sequential and every call of a loop body returns: urlopen
\* is bounded by its timeout and time.sleep by its argument.
FairSpec == InitFair /\ [][Next]_vars /\ WF_vars(Next)

-----------------------------------------------------------------------------
(* What the claims say, stated without the operators of the model *)

TargetField == IF variant = "google" THEN "lat" ELSE "instagram"

\* the record's url field contains 'opentable'
MarkerMatches(rec) ==
    /\ "url" \in DOMAIN rec
    /\ \E k \in 1..Len(rec["url"].v) : rec["url"].v[k] = "opentable"

\* the record's target field is absent or falsy
TargetMissing(rec) ==
    \/ TargetField \notin DOMAIN rec
    \/ rec[TargetField] \in {None, Num(0), Str(<<>>)}

EntryNames == {NameOf(variant, ot_entries[k]) : k \in 1..Len(ot_entries)}

\* the sample responses of the API variant whose fetch or extraction raises
FailingGoogle ==
    { Raise,
      Body(List(<<>>)),
      Body(Candidates(Str(<<"x">>))),
      Body(Candidates(List(<<MNullGeometry>>))),
      Body(Candidates(List(<<MNullLocation, M1>>))) }

\* the sample responses of the API variant without a match
NoMatchGoogle ==
    { Body(Dict([status |-> Str(<<"REQUEST_DENIED">>)])),
      Body(Candidates(List(<<>>))) }

\* the fetch or the extraction of the response raises
Fails(resp) ==
    IF variant = "google" THEN resp \in FailingGoogle ELSE resp.kind = "raise"

\* the response has an empty or no 'candidates' (google), no place where a
\* pattern matches (insta)
Empty(resp) ==
    IF variant = "google" THEN resp \in NoMatchGoogle ELSE resp = Body(<<>>)

\* C1: in both scripts a record's name is in the Candidate Set iff its url
\* contains 'opentable' and its target field (lat / instagram) is absent or
\* falsy; every fetch is for such a record, so a record whose target field is
\* already set is never fetched.
C1_FilterCorrectness ==
    pc \notin {"load", "filter"} =>
        /\ \A n \in DOMAIN loaded :
              n \in EntryNames <=> (MarkerMatches(loaded[n]) /\ TargetMissing(loaded[n]))
        /\ \A k \in 1..Len(fetched) :
              /\ MarkerMatches(loaded[fetched[k].name])
              /\ TargetMissing(loaded[fetched[k].name])

\* a finished run that fetched something and left alone a record whose url
\* matches and whose target field is set
C1_Witness ==
    /\ pc = "done"
    /\ Len(fetched) > 0
    /\ \E n \in DOMAIN loaded : MarkerMatches(loaded[n]) /\ ~TargetMissing(loaded[n])

C3_ErrorIsolation ==
    /\ [][(i' = i + 1 /\ Fails(d')) =>
            /\ errors' = errors + 1
            /\ hits' = hits
            /\ lookup' = lookup
            /\ file' = file
            /\ resultsFile' = resultsFile
            /\ Len(fetched') = Len(fetched) + 1
            /\ pc' = "sleep"]_vars
    /\ [](/\ Len(fetched) = i
          /\ \A k \in 1..Len(fetched) : fetched[k].name = NameOf(variant, ot_entries[k]))

\* the extraction of the second candidate raised on a match whose location is
\* null; its record is as it was loaded
C3_Witness ==
    /\ variant = "google"
    /\ pc = "sleep"
    /\ i = 2
    /\ errors >= 1
    /\ d = Body(Candidates(List(<<MNullLocation, M1>>)))
    /\ lookup[fetched[2].name] = loaded[fetched[2].name]

\* C4: run twice with a stubbed fetch that always returns the same fixed
\* match, the API variant leaves every record that got a hit in the first run
\* out of the second run's Candidate Set, and the second run writes those
\* records as the first run wrote them.
C4_Idempotence ==
    (/\ variant = "google"
     /\ run = 2
     /\ stub \in {FixedStub(r) : r \in FixedMatches("google")}
     /\ pc \notin {"load", "filter"}) =>
        /\ \A n \in prevHits : n \notin EntryNames
        /\ pc \in {"summary", "done"} => \A n \in prevHits : file[n] = loaded[n]

-----------------------------------------------------------------------------
(* The extraction rule of the scrape variant, as the claims state it *)

Reserved == {<<"p">>, <<"reel">>, <<"explore">>, <<"accounts">>, <<"stories">>}

\* the sample captures without surrounding whitespace and trailing '/'
Stripped(cap) ==
    CASE cap = <<" ", "lebernardin", "/", "/">> -> <<"lebernardin">>
      [] cap = <<"/">> -> <<>>
      [] OTHER -> cap

IsHandle(cap) == Stripped(cap) # <<>> /\ Stripped(cap) \notin Reserved
IsReserved(cap) == Stripped(cap) \in Reserved

\* the place of the first match of pattern p is k
FirstOf(page, p, k) ==
    /\ k \in 1..Len(page)
    /\ page[k].p = p
    /\ \A j \in 1..(k - 1) : page[j].p # p

\* the patterns whose first match is a handle
Yielding(page) ==
    {p \in 1..3 : \E k \in 1..Len(page) : FirstOf(page, p, k) /\ IsHandle(page[k].cap)}

\* the value the rule accepts, <<>> when it accepts none
RuleValue(page) ==
    IF Yielding(page) = {} THEN <<>>
    ELSE LET p == CHOOSE q \in Yielding(page) : \A r \in Yielding(page) : q <= r
             k == CHOOSE j \in 1..Len(page) : FirstOf(page, p, j)
         IN  Stripped(page[k].cap)

\* the page has a blocklisted capture and a handle later in the text
ReservedThenHandle(page) ==
    \E j, k \in 1..Len(page) : j < k /\ IsReserved(page[j].cap) /\ IsHandle(page[k].cap)

\* place <<p, k>> comes before <<q, j>> in pattern order
Before(p, k, q, j) == p < q \/ (p = q /\ k <= j)

\* the first of all the matches, in pattern order, that is a handle
FirstHandle(page) ==
    LET hs == {k \in 1..Len(page) : IsHandle(page[k].cap)}
        k == CHOOSE a \in hs : \A b \in hs : Before(page[a].p, a, page[b].p, b)
    IN  Stripped(page[k].cap)

\* the loop body that just ended was for a page
AfterPage == variant = "insta" /\ pc = "sleep" /\ d.kind = "body"

\* the entry the loop body that just ended appended to the Results List is e
Appended(e) == Len(hits) > 0 /\ hits[Len(hits)] = e

\* the loop body that just ended appended nothing
NothingAppended == \A k \in 1..Len(hits) : hits[k].name # fetched[i].name

\* C5 as stated: given page text with a blocklisted capture and a valid
\* handle later in the text, the extraction accepts a value, and it is the
\* first non-blocklisted match in pattern order.
C5_PatternPrecedence ==
    (AfterPage /\ ReservedThenHandle(d.body)) =>
        Appended([name |-> fetched[i].name, instagram |-> FirstHandle(d.body)])

\* C5 amended: given page text with a blocklisted capture and a valid handle
\* later in the text, only the first match of each pattern counts: the
\* accepted value is the capture of the first pattern, in pattern order, whose
\* first match is a handle; when no pattern's first match is a handle, nothing
\* is accepted although the text holds a valid handle.
C5_PatternPrecedenceAmended ==
    (AfterPage /\ ReservedThenHandle(d.body)) =>
        IF Yielding(d.body) # {}
        THEN Appended([name |-> fetched[i].name, instagram |-> RuleValue(d.body)])
        ELSE NothingAppended

\* the text starts with a blocklisted capture of pattern 2, a handle of
\* pattern 1 follows, and the handle is accepted
C5_Witness ==
    /\ AfterPage
    /\ d.body = <<[p |-> 2, cap |-> <<"reel">>], [p |-> 1, cap |-> <<"chef">>]>>
    /\ Appended([name |-> fetched[i].name, instagram |-> <<"chef">>])

\* C8: patterns are tried in order, each by its first match only; the capture
\* is stripped and accepted iff non-empty and not in the blocklist; a rejected
\* capture passes on to the next pattern; no accepted value is a no-hit.  So a
\* page appends one entry with the rule's value or nothing, and every entry
\* of the Results List is non-empty and not in the blocklist, with at most
\* one entry per candidate.
C8_ExtractionRule ==
    /\ [][(i' = i + 1 /\ variant = "insta" /\ d'.kind = "body") =>
            hits' = IF RuleValue(d'.body) # <<>>
                    THEN Append(hits, [name |-> ot_entries[i + 1].name,
                                       instagram |-> RuleValue(d'.body)])
                    ELSE hits]_vars
    /\ [](variant = "insta" =>
            /\ \A k \in 1..Len(hits) :
                  hits[k].instagram # <<>> /\ hits[k].instagram \notin Reserved
            /\ \A j, k \in 1..Len(hits) : hits[j].name = hits[k].name => j = k
            /\ Len(hits) <= i)

\* a blocklisted capture of pattern 1 was rejected and the stripped capture of
\* pattern 2 was appended for the second candidate
C8_Witness ==
    /\ AfterPage
    /\ i = 2
    /\ d.body = <<[p |-> 1, cap |-> <<"explore">>],
                  [p |-> 2, cap |-> <<" ", "lebernardin", "/", "/">>]>>
    /\ Appended([name |-> 2, instagram |-> <<"lebernardin">>])

-----------------------------------------------------------------------------

\* C6: a run writes its output file exactly once, after the last candidate;
\* before that step the input file is what was loaded and, in a first run of
\* the scrape variant, no results file exists; no other step changes a file.
C6_NoPartialPersistence ==
    /\ [](/\ writes <= 1
          /\ pc = "load" => writes = 0
          /\ pc \in {"filter", "loop", "sleep"} =>
                /\ writes = 0
                /\ file = loaded
                /\ (variant = "insta" /\ run = 1) => resultsFile = NoFile
          /\ pc \in {"summary", "done"} => (writes = 1 /\ i = Len(ot_entries)))
    /\ [][(file' # file \/ resultsFile' # resultsFile) =>
            (pc = "loop" /\ i = Len(ot_entries) /\ pc' = "summary")]_vars

\* the API variant has a hit in memory and the input file is still as loaded
C6_Witness ==
    /\ variant = "google"
    /\ pc = "sleep"
    /\ hits >= 1
    /\ lookup # loaded
    /\ file = loaded
    /\ writes = 0

\* j[k], None when j is no dict or has no key k
At(j, k) == IF j.tag = "dict" /\ k \in DOMAIN j.v THEN j.v[k] ELSE None

\* the sample response has a first match that can be read
HasMatch(resp) ==
    resp.kind = "body" /\ resp \notin FailingGoogle /\ resp \notin NoMatchGoogle

Five == {"lat", "lng", "google_rating", "google_reviews", "place_id"}

Expected == {n \in DOMAIN loaded : MarkerMatches(loaded[n]) /\ TargetMissing(loaded[n])}
Kth(k) == CHOOSE n \in Expected : Cardinality({m \in Expected : m <= n}) = k

\* C9: once the store is loaded, whatever the outcomes, the run reaches the
\* persist step and the summary; the requests are for the candidates of the
\* loaded store, each once, in the order of the store; the Candidate Set does
\* not change during the run; a sleep follows every candidate.
C9_CompletionAndOrder ==
    /\ \A r \in 1..MaxRuns : (pc = "filter" /\ run = r) ~> (pc = "done" /\ run = r)
    /\ [](pc \notin {"load", "filter"} =>
            /\ Len(ot_entries) = Cardinality(Expected)
            /\ \A k \in 1..Len(ot_entries) : NameOf(variant, ot_entries[k]) = Kth(k)
            /\ \A k \in 1..Len(fetched) : fetched[k].name = Kth(k)
            /\ Len(fetched) = i)
    /\ [](pc \in {"summary", "done"} =>
            (Len(fetched) = Cardinality(Expected) /\ writes = 1 /\ sleeps = Len(fetched)))
    /\ [](pc = "loop" => sleeps = i)
    /\ [](pc = "sleep" => sleeps = i - 1)
    /\ [][(pc \in {"loop", "sleep", "summary"}) => (ot_entries' = ot_entries)]_vars

\* a second run ended after two fetches, one of which raised
C9_Witness ==
    /\ pc = "done"
    /\ run = 2
    /\ Len(fetched) = 2
    /\ sleeps = 2
    /\ errors >= 1
    /\ Len(output) > 1

\* C10 as stated: for every processed candidate whose index is a multiple of
\* the period (50 / 100) a line showing index, total, hits and errors was
\* printed, whatever the outcome; the scrape variant also printed a line for
\* every hit.
C10_PeriodicProgress ==
    /\ \A k \in 1..i :
          k % (IF variant = "google" THEN 50 ELSE 100) = 0 =>
              \E l \in 1..Len(output) :
                  /\ {"index", "total", "hits", "errors"} \subseteq DOMAIN output[l]
                  /\ output[l].index = k
                  /\ output[l].total = Len(ot_entries)
    /\ variant = "insta" =>
          \A h \in 1..Len(hits) :
              \E l \in 1..Len(output) :
                  /\ output[l].kind = "ig"
                  /\ output[l].name = hits[h].name
                  /\ output[l].instagram = hits[h].instagram

\* C10 amended: the API variant prints, for every candidate whose index is a
\* multiple of 50, one line showing index, total, hits and errors, whatever
\* the outcome.  The scrape variant prints for every hit one line showing
\* index, total, name and handle, and no periodic line; for a candidate whose
\* index is a multiple of 100 it prints a periodic line only on a no-hit
\* (index, total and hits, without errors) or an error (index, total, hits
\* and errors).  Nothing else is printed in the loop.
C10_PeriodicProgressAmended ==
    [][i' = i + 1 =>
        LET k == i + 1
            total == Len(ot_entries)
            all == [kind |-> "progress", index |-> k, total |-> total,
                    hits |-> NumHits', errors |-> errors']
        IN  IF variant = "google"
            THEN output' = IF k % 50 = 0 THEN Append(output, all) ELSE output
            ELSE IF Len(hits') > Len(hits)
                 THEN output' = Append(output,
                          [kind |-> "ig", index |-> k, total |-> total,
                           name |-> ot_entries[k].name,
                           instagram |-> hits'[Len(hits')].instagram])
                 ELSE IF k % 100 # 0 THEN output' = output
                 ELSE IF errors' > errors THEN output' = Append(output, all)
                 ELSE output' = Append(output,
                          [kind |-> "found so far", index |-> k, total |-> total,
                           hits |-> Len(hits')])]_vars

\* the 100th candidate of the scrape variant was a hit after earlier errors:
\* its line is the last one printed
C10_Witness ==
    /\ variant = "insta"
    /\ pc = "sleep"
    /\ i = 100
    /\ errors >= 1
    /\ Len(hits) = 1
    /\ hits[1].name = 100
    /\ output[Len(output)].kind = "ig"

====
